---------------------------- MODULE Spec2Model ----------------------------
(***************************************************************************)
(* AI content-generation gateway.                                          *)
(*                                                                         *)
(*   - the generate-content edge function (src/unnamed/part_002): the      *)
(*     per-client rate limiter, the concurrency-bounded queue and the      *)
(*     request handler;                                                    *)
(*   - the client library (src/unnamed/part_001): generateContent with     *)
(*     its response cache in table ai_responses;                           *)
(*   - the content calendar (src/unnamed/part_000): autoScheduleContent.   *)
(*                                                                         *)
(* Specifications over the same variables:                                 *)
(*   SpecRate  calls of checkRateLimit under a moving clock;               *)
(*   SpecSlide calls of one client, with an interval under watch;          *)
(*   SpecHash  generatePromptHash applied to pairs of triples;             *)
(*   SpecServe requests arriving at the edge function;                     *)
(*   FairServe the same requests, every enabled step eventually taken;     *)
(*   Spec      generateContent callers in front of the edge function;      *)
(*   SpecGate  one caller, other requests from its address, the clock;     *)
(*   SpecIdent requests with and without x-forwarded-for at the gate;      *)
(*   SpecPreflight the same gate with OPTIONS requests among the POSTs;    *)
(*   SpecCross crossCheckContent over generateContent;                     *)
(*   SpecQueue a stream of requests through enqueueRequest;                *)
(*   SpecSchedule one autoScheduleContent call, and FairSchedule, the same *)
(*     call with its loop never left standing.                             *)
(***************************************************************************)
EXTENDS Integers, Sequences, FiniteSets, TLC

\* ------------------------------------------------------------------------
\* Program constants
\* ------------------------------------------------------------------------

\* const RATE_LIMIT_WINDOW = 60000
RATE_LIMIT_WINDOW == 60000

\* const MAX_REQUESTS_PER_WINDOW = 10
MAX_REQUESTS_PER_WINDOW == 10

\* const MAX_CONCURRENT_REQUESTS = 3
MAX_CONCURRENT_REQUESTS == 3

\* ------------------------------------------------------------------------
\* Bounds of the model
\* ------------------------------------------------------------------------

\* The clock takes the values k * RATE_LIMIT_WINDOW + j, k <= MaxWindows,
\* j <= MaxSkew: the window's start, its last instant and the first one after.
MaxWindows == 2

MaxSkew == 1

\* Requests that arrive at the edge function in SpecServe.
NumReqs == 4

\* Milliseconds over which they arrive.
MaxMs == 2

\* Concurrent generateContent callers in Spec.
NumCallers == 2

\* generateContent calls started in one behaviour of Spec.
MaxCalls == 3

\* Requests that arrive at the edge function in SpecQueue.
StreamLen == 7

\* Milliseconds over which they arrive.
StreamMs == 3

\* Days are numbered from 0. A campaign starts on day 0..MaxStart and lasts
\* at most MaxDay days; autoScheduleContent is asked for 0..MaxCount entries.
MaxStart == 1

MaxDay == 31

MaxCount == 3

\* The requests: SpecServe uses the first NumReqs of them.
Reqs == 1..StreamLen

\* Caller p's invoke is request p of the edge function.
Callers == 1..NumCallers

Clock == { k * RATE_LIMIT_WINDOW + j : k \in 0..MaxWindows, j \in 0..MaxSkew }

\* Values of the x-forwarded-for header; NoHeader is a request without it.
NoHeader == "<none>"

Headers == { NoHeader, "", "10.0.0.1" }

\* A slip of the handler: every request filed under the fallback identity.
clientIpOfShared(xff) == "unknown"

\* req.headers.get('x-forwarded-for') || 'unknown': get() gives null without
\* the header, and both null and the empty string are falsy.
clientIpOf(xff) == IF xff \in { NoHeader, "" } THEN "unknown" ELSE xff

IPs == { clientIpOf(x) : x \in Headers }

VARIABLES
    now,            \* Date.now()
    requestCounts,  \* Map<string, {count, timestamp}>
    admitted,       \* per client, the calls admitted since its windowStart was set
    lastCall,       \* the last direct call of checkRateLimit and what it saw
    watch,          \* an interval of RATE_LIMIT_WINDOW ms and the calls admitted in it
    queue,          \* Map<string, Promise<any>>: request key -> the operation's promise
    hpc,            \* per request, where its handler stands
    hreq,           \* per request, the request being handled
    hkey,           \* per request, its requestKey
    hwait,          \* per suspended request, the promises its Promise.race watches
    hwoke,          \* per resumed request, how that race settled
    hsusp,          \* the suspended requests, in the order they last suspended
    resp,           \* per request, the Response returned
    hlog,           \* per request, what its handler has done so far
    cache,          \* table ai_responses, rows in insertion order
    cpc,            \* per caller, where its generateContent call stands
    creq,           \* per caller, the (prompt, contentType, provider) of the call
    cdata,          \* per caller, cachedResponse: the row the lookup returned
    cgen,           \* per caller, data.content of the invoke's answer
    cret,           \* per caller, what the call returned or threw
    calls,          \* generateContent calls started so far
    chist,          \* per caller, what its current call has met and done
    hits,           \* per row, the cache hits whose update reached it
    served,         \* per fingerprint, the calls that returned content
    xpc,            \* where the crossCheckContent call stands
    xct,            \* its contentType
    xi,             \* the index of the loop's provider in `providers`
    xcontent,       \* content: what generateContent returned in this iteration
    results,        \* results: the entries pushed so far
    xlog,           \* the providers it called generateContent with, and those that failed
    fpin,           \* two (prompt, contentType, provider) triples
    fpout,          \* the strings generatePromptHash digests for them
    spc,            \* where the autoScheduleContent call stands
    sarg,           \* its campaign row, contentCount and preferences
    schedule,       \* schedule: the entries pushed so far
    currentDate     \* currentDate

rateVars == << now, requestCounts, admitted, lastCall, watch >>

serveVars == << queue, hpc, hreq, hkey, hwait, hwoke, hsusp, resp, hlog >>

crossVars == << xpc, xct, xi, xcontent, results, xlog >>

hashVars == << fpin, fpout >>

schedVars == << spc, sarg, schedule, currentDate >>

clientVars == << cache, cpc, creq, cdata, cgen, cret, calls, chist, hits, served,
                crossVars, hashVars, schedVars >>

vars == << rateVars, serveVars, clientVars >>

\* ------------------------------------------------------------------------
\* Map helpers (a Map is a function whose domain is its key set)
\* ------------------------------------------------------------------------

EmptyMap == [ k \in {} |-> 0 ]

MapSet(m, k, v) == [ x \in (DOMAIN m) \cup {k} |-> IF x = k THEN v ELSE m[x] ]

MapDelete(m, k) == [ x \in (DOMAIN m) \ {k} |-> m[x] ]

MapValues(m) == { m[k] : k \in DOMAIN m }

SeqWithout(s, x) == SelectSeq(s, LAMBDA y : y # x)

SeqRange(s) == { s[i] : i \in DOMAIN s }

\* ------------------------------------------------------------------------
\* Rate limiter
\* ------------------------------------------------------------------------

\* A slip of checkRateLimit: the bound compared with > instead of >=.
checkRateLimitOffByOne(counts, clientIp, t) ==
    IF clientIp \notin DOMAIN counts
       \/ (t - counts[clientIp].timestamp) > RATE_LIMIT_WINDOW
    THEN [ ok |-> TRUE,
           counts |-> MapSet(counts, clientIp, [ count |-> 1, timestamp |-> t ]) ]
    ELSE IF counts[clientIp].count > MAX_REQUESTS_PER_WINDOW
    THEN [ ok |-> FALSE, counts |-> counts ]
    ELSE [ ok |-> TRUE,
           counts |-> MapSet(counts, clientIp,
                             [ counts[clientIp] EXCEPT !.count = @ + 1 ]) ]

\* A slip of checkRateLimit: the count tested before the window's age.
checkRateLimitCountFirst(counts, clientIp, t) ==
    IF clientIp \in DOMAIN counts
       /\ counts[clientIp].count >= MAX_REQUESTS_PER_WINDOW
    THEN [ ok |-> FALSE, counts |-> counts ]
    ELSE IF clientIp \notin DOMAIN counts
            \/ (t - counts[clientIp].timestamp) > RATE_LIMIT_WINDOW
    THEN [ ok |-> TRUE,
           counts |-> MapSet(counts, clientIp, [ count |-> 1, timestamp |-> t ]) ]
    ELSE [ ok |-> TRUE,
           counts |-> MapSet(counts, clientIp,
                             [ counts[clientIp] EXCEPT !.count = @ + 1 ]) ]

\* A slip of checkRateLimit: the window's age compared with >= instead of >.
checkRateLimitResetAtBoundary(counts, clientIp, t) ==
    IF clientIp \notin DOMAIN counts
       \/ (t - counts[clientIp].timestamp) >= RATE_LIMIT_WINDOW
    THEN [ ok |-> TRUE,
           counts |-> MapSet(counts, clientIp, [ count |-> 1, timestamp |-> t ]) ]
    ELSE IF counts[clientIp].count >= MAX_REQUESTS_PER_WINDOW
    THEN [ ok |-> FALSE, counts |-> counts ]
    ELSE [ ok |-> TRUE,
           counts |-> MapSet(counts, clientIp,
                             [ counts[clientIp] EXCEPT !.count = @ + 1 ]) ]

\* A slip of checkRateLimit: the rejected call counted as well.
checkRateLimitCountsRejected(counts, clientIp, t) ==
    IF clientIp \notin DOMAIN counts
       \/ (t - counts[clientIp].timestamp) > RATE_LIMIT_WINDOW
    THEN [ ok |-> TRUE,
           counts |-> MapSet(counts, clientIp, [ count |-> 1, timestamp |-> t ]) ]
    ELSE [ ok |-> counts[clientIp].count < MAX_REQUESTS_PER_WINDOW,
           counts |-> MapSet(counts, clientIp,
                             [ counts[clientIp] EXCEPT !.count = @ + 1 ]) ]

\* checkRateLimit(clientIp) at Date.now() = t: the value returned and the map
\* it leaves.
checkRateLimit(counts, clientIp, t) ==
    IF clientIp \notin DOMAIN counts
       \/ (t - counts[clientIp].timestamp) > RATE_LIMIT_WINDOW
    THEN [ ok |-> TRUE,
           counts |-> MapSet(counts, clientIp, [ count |-> 1, timestamp |-> t ]) ]
    ELSE IF counts[clientIp].count >= MAX_REQUESTS_PER_WINDOW
    THEN [ ok |-> FALSE, counts |-> counts ]
    ELSE [ ok |-> TRUE,
           counts |-> MapSet(counts, clientIp,
                             [ counts[clientIp] EXCEPT !.count = @ + 1 ]) ]

NoCall == [ ip |-> "", ok |-> FALSE, seq |-> 0, prev |-> 0 ]

\* No interval is watched. A watched interval is [from, from + RATE_LIMIT_WINDOW]
\* for one client: n counts the calls admitted in it since the watch began,
\* atStart tells whether a window of the client started at `from`.
NoWatch == [ ip |-> "", from |-> 0, n |-> 0, atStart |-> FALSE ]

\* The watch after a call of checkRateLimit(ip) that returned r.
WatchAfter(ip, r) ==
    IF watch.ip # ip \/ now - watch.from > RATE_LIMIT_WINDOW THEN watch
    ELSE [ watch EXCEPT !.n = IF r.ok THEN @ + 1 ELSE @,
                        !.atStart = @ \/ r.counts[ip].timestamp = watch.from ]

\* The clock moves on, to a later instant of T.
Tick(T) ==
    /\ \E t \in T : t > now /\ now' = t
    /\ UNCHANGED << requestCounts, admitted, lastCall, watch, serveVars, clientVars >>

\* The calls admitted in the window of `ip` after a call that returned `r`:
\* counted anew when the call gave the window a new start.
AdmittedAfter(ip, r) ==
    IF ~r.ok THEN admitted[ip]
    ELSE IF ip \notin DOMAIN requestCounts
            \/ r.counts[ip].timestamp # requestCounts[ip].timestamp
    THEN 1
    ELSE admitted[ip] + 1

\* One call of checkRateLimit(clientIp).
RateCall(ip) ==
    LET r == checkRateLimit(requestCounts, ip, now) IN
    /\ requestCounts' = r.counts
    /\ admitted' = [ admitted EXCEPT ![ip] = AdmittedAfter(ip, r) ]
    /\ lastCall' = [ ip   |-> ip,
                     ok   |-> r.ok,
                     seq  |-> 1 - lastCall.seq,
                     prev |-> IF ip \in DOMAIN requestCounts
                              THEN requestCounts[ip].count ELSE 0 ]
    /\ watch' = WatchAfter(ip, r)
    /\ UNCHANGED << now, serveVars, clientVars >>

\* The interval of RATE_LIMIT_WINDOW ms that begins now is watched for `ip`.
Observe(ip) ==
    /\ watch = NoWatch
    /\ watch' = [ ip |-> ip, from |-> now, n |-> 0,
                  atStart |-> ip \in DOMAIN requestCounts
                              /\ requestCounts[ip].timestamp = now ]
    /\ UNCHANGED << now, requestCounts, admitted, lastCall, serveVars, clientVars >>

RateStep == \E ip \in IPs : RateCall(ip)

\* ------------------------------------------------------------------------
\* Edge function: queue and request handler
\* ------------------------------------------------------------------------

\* export type AIProvider: the cases of the handler's switch
AIProviders == { "mistral", "gemini", "anthropic", "cohere" }

\* A request: its method, its x-forwarded-for header, whether its body
\* parses as JSON, and the provider the body names (prompt and contentType go
\* into the text sent to the backend and nowhere else).
NoReq == [ method |-> "", xff |-> "", json |-> FALSE, provider |-> "" ]

\* How a promise settled: fulfilled with val, or rejected with the error
\* message val; src is the operation (request) whose promise it was.
NoOutcome == [ ok |-> FALSE, val |-> "", src |-> 0 ]

Fulfilled(r, content) == [ ok |-> TRUE, val |-> content, src |-> r ]

Rejected(r, message) == [ ok |-> FALSE, val |-> message, src |-> r ]

\* src = 0: the response does not carry the outcome of an operation.
NoResp == [ status |-> 0, body |-> "", src |-> 0 ]

\* What a handler has done: the rate limiter's verdict, whether the body was
\* read, whether enqueueRequest suspended it, whether it did queue.set, how
\* often it started its operation, whether that reached a backend, how the
\* operation settled (fulfilled or rejected, and with what), and the provider
\* named in the body once req.json() has given it. Of its time in
\* enqueueRequest's while loop: how often it suspended (spins), the callers
\* that were suspended when it first suspended and still are (behind), and
\* how many callers that first suspended after it have been admitted while
\* it is suspended (passed).
Unread == "<unread>"

NoHLog == [ admit |-> "", parsed |-> FALSE, waited |-> FALSE, slot |-> FALSE,
            ran |-> 0, backend |-> FALSE, settled |-> "", val |-> "",
            provider |-> Unread, spins |-> 0, behind |-> {}, passed |-> 0 ]

\* const requestKey = `${clientIp}-${Date.now()}`
requestKey(clientIp, t) == clientIp \o "-" \o ToString(t)

\* A slip of the while loop's test: one operation too many let in.
queueFullOffByOne(q) == Cardinality(DOMAIN q) > MAX_CONCURRENT_REQUESTS

\* while (queue.size >= MAX_CONCURRENT_REQUESTS)
queueFull(q) == Cardinality(DOMAIN q) >= MAX_CONCURRENT_REQUESTS

\* The operations started and not completed.
InFlight == { r \in Reqs : hpc[r] = "running" }

\* The operation of r threw in its switch: its promise is already rejected and
\* its reactions are queued as microtasks.
Rejecting(r) == hpc[r] = "running" /\ hreq[r].provider \notin AIProviders

\* Promise reactions run before the event loop takes the next task (a
\* request, a parsed body, a provider's answer).
MicrotaskPending == \E r \in Reqs : hpc[r] = "woken" \/ Rejecting(r)

\* The handler returns `response` and is gone.
Respond(r, response) ==
    /\ resp' = [ resp EXCEPT ![r] = response ]
    /\ hpc' = [ hpc EXCEPT ![r] = "done" ]
    /\ hreq' = [ hreq EXCEPT ![r] = NoReq ]
    /\ hkey' = [ hkey EXCEPT ![r] = "" ]
    /\ hwait' = [ hwait EXCEPT ![r] = {} ]
    /\ hwoke' = [ hwoke EXCEPT ![r] = NoOutcome ]
    /\ hsusp' = SeqWithout(hsusp, r)

\* An endpoint that answers 200 whatever became of the operation.
statusOfAlways200(out) == 200

\* The status of the response to an awaited enqueueRequest: the default 200 of
\* new Response, or the catch block's 500.
statusOf(out) == IF out.ok THEN 200 ELSE 500

\* A catch block that hides the error behind a fixed text.
bodyOfGeneric(out) == IF out.ok THEN out.val ELSE "Internal Server Error"

\* The body of that response: { content }, or { error: error.message }.
bodyOf(out) == out.val

\* A slip of the handler: the rate limiter's gate placed before the
\* pre-flight answer.
HandleGateFirst(r, req) ==
    /\ hpc[r] = "idle"
    /\ ~MicrotaskPending
    /\ LET rl == checkRateLimit(requestCounts, clientIpOf(req.xff), now) IN
       /\ requestCounts' = rl.counts
       /\ IF ~rl.ok
          THEN /\ Respond(r, [ status |-> 429,
                               body |-> "Rate limit exceeded. Please try again later.",
                               src |-> 0 ])
               /\ hlog' = [ hlog EXCEPT ![r].admit = "no" ]
          ELSE IF req.method = "OPTIONS"
          THEN /\ Respond(r, [ status |-> 200, body |-> "ok", src |-> 0 ])
               /\ UNCHANGED hlog
          ELSE /\ hpc' = [ hpc EXCEPT ![r] = "parsing" ]
               /\ hreq' = [ hreq EXCEPT ![r] = req ]
               /\ hlog' = [ hlog EXCEPT ![r].admit = "yes" ]
               /\ UNCHANGED << hkey, hwait, hwoke, hsusp, resp >>
    /\ UNCHANGED << now, admitted, lastCall, watch, queue >>

\* serve(async (req) => ...) up to its first await: the pre-flight answer,
\* the rate limiter's gate, then await req.json().
Handle(r, req) ==
    /\ hpc[r] = "idle"
    /\ ~MicrotaskPending
    /\ IF req.method = "OPTIONS"
       THEN /\ Respond(r, [ status |-> 200, body |-> "ok", src |-> 0 ])
            /\ UNCHANGED << requestCounts, hlog >>
       ELSE LET rl == checkRateLimit(requestCounts, clientIpOf(req.xff), now) IN
            /\ requestCounts' = rl.counts
            /\ hlog' = [ hlog EXCEPT ![r].admit = IF rl.ok THEN "yes" ELSE "no" ]
            /\ IF ~rl.ok
               THEN Respond(r, [ status |-> 429,
                                 body |-> "Rate limit exceeded. Please try again later.",
                                 src |-> 0 ])
               ELSE /\ hpc' = [ hpc EXCEPT ![r] = "parsing" ]
                    /\ hreq' = [ hreq EXCEPT ![r] = req ]
                    /\ UNCHANGED << hkey, hwait, hwoke, hsusp, resp >>
    /\ UNCHANGED << now, admitted, lastCall, watch, queue >>

\* enqueueRequest(key, operation) from its while loop on: suspend on
\* Promise.race(queue.values()) while the queue is full, or else start the
\* operation and queue.set(key, promise).
enqueueRequest(r, key) ==
    IF queueFull(queue)
    THEN /\ hpc' = [ hpc EXCEPT ![r] = "waiting" ]
         /\ hwait' = [ hwait EXCEPT ![r] = MapValues(queue) ]
         /\ hkey' = [ hkey EXCEPT ![r] = key ]
         /\ hwoke' = [ hwoke EXCEPT ![r] = NoOutcome ]
         /\ hsusp' = Append(SeqWithout(hsusp, r), r)
         /\ hlog' = [ hlog EXCEPT ![r].parsed = TRUE, ![r].waited = TRUE,
                                  ![r].provider = hreq[r].provider,
                                  ![r].spins = @ + 1,
                                  ![r].behind = IF hlog[r].waited THEN @
                                                ELSE SeqRange(hsusp) \ {r} ]
         /\ UNCHANGED << queue, hreq, resp >>
    ELSE /\ hpc' = [ hpc EXCEPT ![r] = "running" ]
         /\ queue' = MapSet(queue, key, r)
         /\ hkey' = [ hkey EXCEPT ![r] = key ]
         /\ hwait' = [ hwait EXCEPT ![r] = {} ]
         /\ hwoke' = [ hwoke EXCEPT ![r] = NoOutcome ]
         /\ hsusp' = SeqWithout(hsusp, r)
         /\ hlog' = [ w \in Reqs |->
                       IF w = r
                       THEN [ hlog[r] EXCEPT
                                !.parsed = TRUE, !.slot = TRUE, !.ran = @ + 1,
                                !.backend = hreq[r].provider \in AIProviders,
                                !.provider = hreq[r].provider,
                                !.behind = {} ]
                       ELSE [ hlog[w] EXCEPT
                                !.behind = @ \ {r},
                                !.passed = IF w \in hlog[r].behind THEN @ + 1
                                           ELSE @ ] ]
         /\ UNCHANGED << hreq, resp >>

\* await req.json() settles: a malformed body is the catch block's 500; else
\* the request key is built and enqueueRequest called.
Parsed(r) ==
    /\ hpc[r] = "parsing"
    /\ ~MicrotaskPending
    /\ IF ~hreq[r].json
       THEN /\ Respond(r, [ status |-> 500, body |-> "Unexpected end of JSON input",
                            src |-> 0 ])
            /\ hlog' = [ hlog EXCEPT ![r].parsed = TRUE ]
            /\ UNCHANGED queue
       ELSE enqueueRequest(r, requestKey(clientIpOf(hreq[r].xff), now))
    /\ UNCHANGED rateVars

\* The race a suspended caller awaits has settled: a rejection is thrown out
\* of enqueueRequest into the handler's catch block, a fulfilment goes round
\* the while loop again. The reactions on a promise run in the order they
\* were registered, so of the callers a settlement has woken the one that
\* suspended first resumes first.
Resume(r) ==
    /\ hpc[r] = "woken"
    /\ \A i, j \in DOMAIN hsusp :
          (hsusp[j] = r /\ i < j) => hpc[hsusp[i]] # "woken"
    /\ IF ~hwoke[r].ok
       THEN /\ Respond(r, [ status |-> statusOf(hwoke[r]), body |-> bodyOf(hwoke[r]),
                            src |-> hwoke[r].src ])
            /\ hlog' = [ w \in Reqs |-> [ hlog[w] EXCEPT !.behind = @ \ {r} ] ]
            /\ UNCHANGED queue
       ELSE enqueueRequest(r, hkey[r])
    /\ UNCHANGED rateVars

\* What the operation of r may settle with: the switch's default throws, a
\* backend answers with one of `contents` or fails.
Outcomes(r, contents) ==
    IF hreq[r].provider \notin AIProviders
    THEN { Rejected(r, "Invalid AI provider selected") }
    ELSE { Fulfilled(r, c) : c \in contents } \cup { Rejected(r, "provider error") }

\* An operation that never gives its entry back.
queueAfterFinallyKeep(q, key) == q

\* queue after the operation's .finally(() => queue.delete(key))
queueAfterFinally(q, key) == MapDelete(q, key)

\* The operation of r settles with `out`: finally deletes the key, the
\* handler answers, and every race watching the promise settles with it.
Complete(r, out) ==
    /\ hpc[r] = "running"
    /\ Rejecting(r) \/ ~MicrotaskPending
    /\ queue' = queueAfterFinally(queue, hkey[r])
    /\ resp' = [ resp EXCEPT ![r] = [ status |-> statusOf(out),
                                      body |-> bodyOf(out), src |-> r ] ]
    /\ hpc' = [ w \in Reqs |->
                 IF w = r THEN "done"
                 ELSE IF hpc[w] = "waiting" /\ r \in hwait[w] THEN "woken"
                 ELSE hpc[w] ]
    /\ hwoke' = [ w \in Reqs |->
                   IF w # r /\ hpc[w] = "waiting" /\ r \in hwait[w] THEN out
                   ELSE hwoke[w] ]
    /\ hwait' = [ w \in Reqs |->
                   IF w = r \/ (hpc[w] = "waiting" /\ r \in hwait[w]) THEN {}
                   ELSE hwait[w] ]
    /\ hreq' = [ hreq EXCEPT ![r] = NoReq ]
    /\ hkey' = [ hkey EXCEPT ![r] = "" ]
    /\ hlog' = [ hlog EXCEPT ![r].settled = IF out.ok THEN "fulfilled" ELSE "rejected",
                             ![r].val = out.val ]
    /\ UNCHANGED << rateVars, hsusp >>

\* ------------------------------------------------------------------------
\* Client library: generateContent and the response cache
\* ------------------------------------------------------------------------

\* The (prompt, contentType, provider) triples the callers ask for.
Triples ==
    [ prompt : { "Write about Bali" }, contentType : { "blog" },
      provider : { "anthropic" } ]

\* The texts a backend may answer with.
Contents == { "text A", "text B" }

\* A fingerprint that leaves the provider out.
generatePromptHashNoProvider(prompt, contentType, provider) ==
    prompt \o "-" \o contentType

\* generatePromptHash: the digest of `${prompt}-${contentType}-${provider}`,
\* a digest standing for the string it is taken of.
generatePromptHash(prompt, contentType, provider) ==
    prompt \o "-" \o contentType \o "-" \o provider

HashOf(t) == generatePromptHash(t.prompt, t.contentType, t.provider)

\* type ContentType
ContentTypes == { "blog", "social", "email", "description" }

\* The triples crossCheckContent may ask for.
CrossTriples ==
    [ prompt : { "Write about Bali" }, contentType : ContentTypes,
      provider : AIProviders ]

Hashes == { HashOf(t) : t \in Triples \cup CrossTriples }

\* The rows of `table` with prompt_hash = h.
RowsOf(table, h) == { i \in DOMAIN table : table[i].prompt_hash = h }

NoData == [ found |-> FALSE, response |-> "", usage_count |-> 0 ]

\* .select('response, usage_count').eq('prompt_hash', h).single(): data is
\* the row when exactly one row matches, null otherwise.
selectSingle(table, h) ==
    IF Cardinality(RowsOf(table, h)) = 1
    THEN LET i == CHOOSE i \in RowsOf(table, h) : TRUE IN
         [ found |-> TRUE, response |-> table[i].response,
           usage_count |-> table[i].usage_count ]
    ELSE NoData

\* (cachedResponse.usage_count || 0) + 1
usageAfterHit(u) == (IF u = 0 THEN 0 ELSE u) + 1

\* .update({ usage_count: n }).eq('prompt_hash', h)
updateUsage(table, h, n) ==
    [ i \in DOMAIN table |->
        IF table[i].prompt_hash = h THEN [ table[i] EXCEPT !.usage_count = n ]
        ELSE table[i] ]

\* The row generateContent inserts.
newRow(t, content) ==
    [ prompt_hash |-> HashOf(t), prompt |-> t.prompt, content_type |-> t.contentType,
      provider |-> t.provider, response |-> content, usage_count |-> 1 ]

\* A lookup whose result is ignored.
afterLookupAlwaysMiss(data) == "miss"

\* if (cachedResponse) ...: the branch taken after the lookup.
afterLookup(data) == IF data.found THEN "hit" ELSE "miss"

\* The checks of the answer made only after the insert.
missPlanInsertFirst(rs) ==
    IF rs.status # 200 THEN [ insert |-> FALSE, throws |-> TRUE ]
    ELSE [ insert |-> TRUE, throws |-> rs.body = "" ]

\* if (error) throw error; if (!data?.content) throw ...; then the insert:
\* what the miss path does with the edge function's answer.
missPlan(rs) ==
    IF rs.status # 200 \/ rs.body = ""
    THEN [ insert |-> FALSE, throws |-> TRUE ]
    ELSE [ insert |-> TRUE, throws |-> FALSE ]

NoTriple == [ prompt |-> "", contentType |-> "", provider |-> "", xff |-> "" ]

NoAnswer == [ status |-> 0, body |-> "" ]

NoRet == [ kind |-> "none", val |-> "" ]

NoHist == [ stored |-> FALSE, fault |-> FALSE, overlap |-> FALSE,
            gate |-> FALSE, wrote |-> FALSE, invoked |-> 0 ]

\* Of the calls for a fingerprint that returned content: how many, how many
\* backend invocations they made, whether each ran apart (no other call for
\* the fingerprint was under way during it), the content the first returned
\* and whether all returned that content.
NoneServed == [ n |-> 0, invoked |-> 0, apart |-> TRUE, first |-> "", same |-> TRUE ]

\* The call of p is under way.
Active(p) == cpc[p] \in { "lookup", "hit", "miss", "awaiting", "answered" }

\* A call has settled and its caller has not yet taken the result.
ResultPending == \E p \in Callers : cpc[p] \in { "returned", "threw" }

\* The call of p returns `content`.
Returns(p, content) ==
    /\ cpc' = [ cpc EXCEPT ![p] = "returned" ]
    /\ cret' = [ cret EXCEPT ![p] = [ kind |-> "content", val |-> content ] ]
    /\ served' = [ served EXCEPT ![HashOf(creq[p])] =
                     [ n       |-> @.n + 1,
                       invoked |-> @.invoked + chist[p].invoked,
                       apart   |-> @.apart /\ ~chist[p].overlap,
                       first   |-> IF @.n = 0 THEN content ELSE @.first,
                       same    |-> @.n = 0 \/ (@.same /\ content = @.first) ] ]

\* The catch block: throw new Error('Failed to generate content. ...').
Throws(p) ==
    /\ cpc' = [ cpc EXCEPT ![p] = "threw" ]
    /\ cret' = [ cret EXCEPT ![p] =
                   [ kind |-> "error",
                     val |-> "Failed to generate content. Please try again." ] ]
    /\ UNCHANGED served

\* generateContent(prompt, contentType, provider) is called, from a browser
\* whose requests carry x-forwarded-for = xff (or none): the fingerprint is
\* computed and the lookup sent.
Generate(p, t, xff) ==
    /\ cpc[p] = "idle"
    /\ calls < MaxCalls
    /\ calls' = calls + 1
    /\ cpc' = [ cpc EXCEPT ![p] = "lookup" ]
    /\ creq' = [ creq EXCEPT ![p] =
                   [ prompt |-> t.prompt, contentType |-> t.contentType,
                     provider |-> t.provider, xff |-> xff ] ]
    /\ LET racing == { q \in Callers \ {p} :
                          Active(q) /\ HashOf(creq[q]) = HashOf(t) } IN
       chist' = [ q \in Callers |->
                    IF q = p
                    THEN [ NoHist EXCEPT !.stored = RowsOf(cache, HashOf(t)) # {},
                                         !.overlap = racing # {} ]
                    ELSE IF q \in racing THEN [ chist[q] EXCEPT !.overlap = TRUE ]
                    ELSE chist[q] ]
    /\ UNCHANGED << rateVars, serveVars, cache, cdata, cgen, cret, hits, served, hashVars, schedVars >>

\* The lookup is answered (ok), or fails and leaves data null.
Lookup(p, ok) ==
    /\ cpc[p] = "lookup"
    /\ LET data == IF ok THEN selectSingle(cache, HashOf(creq[p])) ELSE NoData IN
       /\ cdata' = [ cdata EXCEPT ![p] = data ]
       /\ cpc' = [ cpc EXCEPT ![p] = afterLookup(data) ]
    /\ chist' = [ chist EXCEPT ![p].fault = @ \/ ~ok ]
    /\ UNCHANGED << rateVars, serveVars, cache, creq, cgen, cret, calls, hits, served,
                    crossVars, hashVars, schedVars >>

\* Cache hit: the update of usage_count is applied (ok) or fails unnoticed;
\* the cached response is returned.
Hit(p, ok) ==
    /\ cpc[p] = "hit"
    /\ LET h == HashOf(creq[p]) IN
       /\ cache' = IF ok THEN updateUsage(cache, h, usageAfterHit(cdata[p].usage_count))
                    ELSE cache
       /\ hits' = IF ok THEN [ i \in DOMAIN hits |->
                                 IF i \in RowsOf(cache, h) THEN hits[i] + 1 ELSE hits[i] ]
                   ELSE hits
    /\ chist' = [ chist EXCEPT ![p].fault = @ \/ ~ok, ![p].wrote = @ \/ ok ]
    /\ Returns(p, cdata[p].response)
    /\ UNCHANGED << rateVars, serveVars, creq, cdata, cgen, calls, crossVars, hashVars, schedVars >>

\* Cache miss: supabase.functions.invoke('generate-content') reaches the
\* edge function as request p.
Invoke(p) ==
    /\ cpc[p] = "miss"
    /\ Handle(p, [ method |-> "POST", xff |-> creq[p].xff, json |-> TRUE,
                   provider |-> creq[p].provider ])
    /\ cpc' = [ cpc EXCEPT ![p] = "awaiting" ]
    /\ chist' = [ chist EXCEPT ![p].gate = TRUE ]
    /\ UNCHANGED << cache, creq, cdata, cgen, cret, calls, hits, served, crossVars, hashVars, schedVars >>

\* The edge function's answer arrives: { data, error }.
Answer(p) ==
    /\ cpc[p] = "awaiting"
    /\ hpc[p] = "done"
    /\ cpc' = [ cpc EXCEPT ![p] = "answered" ]
    /\ cgen' = [ cgen EXCEPT ![p] = [ status |-> resp[p].status, body |-> resp[p].body ] ]
    /\ hpc' = [ hpc EXCEPT ![p] = "idle" ]
    /\ resp' = [ resp EXCEPT ![p] = NoResp ]
    /\ hlog' = [ hlog EXCEPT ![p] = NoHLog ]
    /\ UNCHANGED << rateVars, queue, hreq, hkey, hwait, hwoke, hsusp,
                    cache, creq, cdata, cret, calls, chist, hits, served, crossVars, hashVars, schedVars >>

\* The rest of the miss path: an error or an empty content is thrown; else
\* the insert is applied (ok) or fails unnoticed, and data.content returned.
Finish(p, ok) ==
    /\ cpc[p] = "answered"
    /\ LET plan == missPlan(cgen[p])
           done == plan.insert /\ ok
       IN
       /\ cache' = IF done THEN Append(cache, newRow(creq[p], cgen[p].body)) ELSE cache
       /\ hits' = IF done THEN Append(hits, 0) ELSE hits
       /\ chist' = [ chist EXCEPT ![p].wrote = @ \/ done,
                                   ![p].fault = @ \/ (plan.insert /\ ~ok) ]
       /\ IF plan.throws
          THEN Throws(p)
          ELSE Returns(p, cgen[p].body)
    /\ UNCHANGED << rateVars, serveVars, creq, cdata, cgen, calls, crossVars, hashVars, schedVars >>

\* The result of the call reaches the code that awaited it.
Return(p) ==
    /\ cpc[p] \in { "returned", "threw" }
    /\ cpc' = [ cpc EXCEPT ![p] = "idle" ]
    /\ creq' = [ creq EXCEPT ![p] = NoTriple ]
    /\ cdata' = [ cdata EXCEPT ![p] = NoData ]
    /\ cgen' = [ cgen EXCEPT ![p] = NoAnswer ]
    /\ cret' = [ cret EXCEPT ![p] = NoRet ]
    /\ chist' = [ chist EXCEPT ![p] = NoHist ]
    /\ UNCHANGED << rateVars, serveVars, cache, calls, hits, served, hashVars, schedVars >>

\* ------------------------------------------------------------------------
\* Client library: crossCheckContent
\* ------------------------------------------------------------------------

\* A mapping that knows only its default.
getBestProviderDefaultOnly(contentType) == "anthropic"

\* getBestProvider: the primary provider of a content type.
getBestProvider(contentType) ==
    CASE contentType = "blog" -> "anthropic"
      [] contentType = "social" -> "gemini"
      [] contentType = "email" -> "cohere"
      [] contentType = "description" -> "mistral"
      [] OTHER -> "anthropic"

\* The provider list in another order.
providersAlphabetical == << "anthropic", "cohere", "gemini", "mistral" >>

\* const providers = ['mistral', 'gemini', 'anthropic', 'cohere']
providers == << "mistral", "gemini", "anthropic", "cohere" >>

\* A catch block that gives up on the remaining providers.
afterCatchAbort(i) == Len(providers) + 1

\* The catch block logs and the for loop goes on with the next provider.
afterCatch(i) == i + 1

NoLog == [ tried |-> << >>, failed |-> {} ]

\* crossCheckContent(prompt, contentType, primaryContent) is called.
CrossCheck(contentType) ==
    /\ xpc = "idle"
    /\ xpc' = "loop"
    /\ xct' = contentType
    /\ xi' = 1
    /\ results' = << >>
    /\ xlog' = NoLog
    /\ UNCHANGED << rateVars, serveVars, xcontent, hashVars, schedVars,
                    cache, cpc, creq, cdata, cgen, cret, calls, chist, hits, served >>

\* One turn of the for loop, up to its first await: the loop ends and results
\* is returned, the primary provider is skipped, or caller p's
\* generateContent(prompt, contentType, provider) is called.
CrossTurn(p) ==
    /\ xpc = "loop"
    /\ IF xi > Len(providers)
       THEN /\ xpc' = "returned"
            /\ UNCHANGED << xi, xlog, rateVars, serveVars, hashVars, schedVars,
                            cache, cpc, creq, cdata, cgen, cret, calls, chist, hits, served >>
       ELSE IF providers[xi] = getBestProvider(xct)
       THEN /\ xi' = xi + 1
            /\ UNCHANGED << xpc, xlog, rateVars, serveVars, hashVars, schedVars,
                            cache, cpc, creq, cdata, cgen, cret, calls, chist, hits, served >>
       ELSE /\ Generate(p, [ prompt |-> "Write about Bali", contentType |-> xct,
                              provider |-> providers[xi] ], "10.0.0.1")
            /\ xpc' = "generating"
            /\ xlog' = [ xlog EXCEPT !.tried = Append(@, providers[xi]) ]
            /\ UNCHANGED xi
    /\ UNCHANGED << xct, xcontent, results >>

\* generateContent settles: its content goes on to analyze-content, or its
\* rejection is caught.
CrossGenerated(p) ==
    /\ xpc = "generating"
    /\ Return(p)
    /\ IF cpc[p] = "returned"
       THEN /\ xpc' = "analyzing"
            /\ xcontent' = cret[p].val
            /\ UNCHANGED << xi, xlog >>
       ELSE /\ xpc' = "loop"
            /\ xi' = afterCatch(xi)
            /\ xlog' = [ xlog EXCEPT !.failed = @ \cup { providers[xi] } ]
            /\ UNCHANGED xcontent
    /\ UNCHANGED << xct, results >>

\* supabase.functions.invoke('analyze-content') settles with analysisData, or
\* with null when the analysis failed: an entry is pushed only for data.
CrossAnalyzed(analysisData) ==
    /\ xpc = "analyzing"
    /\ xpc' = "loop"
    /\ xi' = xi + 1
    /\ xcontent' = ""
    /\ IF analysisData # ""
       THEN /\ results' = Append(results, [ provider |-> providers[xi],
                                            content |-> xcontent,
                                            analysis |-> analysisData ])
            /\ UNCHANGED xlog
       ELSE /\ xlog' = [ xlog EXCEPT !.failed = @ \cup { providers[xi] } ]
            /\ UNCHANGED results
    /\ UNCHANGED << rateVars, serveVars, xct, hashVars, schedVars,
                    cache, cpc, creq, cdata, cgen, cret, calls, chist, hits, served >>

\* ------------------------------------------------------------------------
\* Content calendar: autoScheduleContent
\* ------------------------------------------------------------------------

\* A Date is counted in half days of the local calendar: 2 * day for the
\* morning of a day, 2 * day + 1 for its afternoon.
DateAt(day, half) == 2 * day + half

\* format(date, 'yyyy-MM-dd'): the day, the time of day dropped.
formatDate(date) == date \div 2

\* addDays(date, amount): the same time of day, `amount` days later.
addDays(date, amount) == date + 2 * amount

Frequencies == { "daily", "weekly", "monthly" }

\* A slip of the switch: a month taken as 31 days.
stepDaysLongMonth(frequency) ==
    CASE frequency = "daily" -> 1
      [] frequency = "weekly" -> 7
      [] frequency = "monthly" -> 31

\* switch (preferences.frequency): the days the loop advances by.
stepDays(frequency) ==
    CASE frequency = "daily" -> 1
      [] frequency = "weekly" -> 7
      [] frequency = "monthly" -> 30

\* const defaultTime = '10:00'
defaultTime == "10:00"

\* An optional array of the preferences: left out, or given with its items.
NotGiven(items) == [ given |-> FALSE, items |-> items ]

Given(items) == [ given |-> TRUE, items |-> items ]

\* The campaign rows `.single()` may hand over: none (data is null), or a
\* row with its start_date and end_date.
NoCampaign == [ found |-> FALSE, start_date |-> 0, end_date |-> 0 ]

\* The lengths of the campaigns tried, in days: a campaign ends on a day
\* that the loop of some frequency visits within MaxCount steps.
Spans ==
    { n \in 0..MaxDay :
        \E frequency \in Frequencies, k \in 0..MaxCount : n = k * stepDays(frequency) }

\* A campaign starts in the afternoon and ends in the morning or in the
\* afternoon: before the time of day the loop carries along, or at it.
Campaigns ==
    { NoCampaign } \cup
    { [ found |-> TRUE, start_date |-> DateAt(d, 1), end_date |-> DateAt(d + n, g) ] :
        d \in 0..MaxStart, n \in Spans, g \in 0..1 }

PreferredTimes == { NotGiven(<< >>), Given(<< >>), Given(<< "09:00", "18:00" >>) }

\* The excluded dates tried for a campaign: none, the second day the loop
\* visits, or the first and the second.
ExcludedDates(campaign, frequency) ==
    LET first == formatDate(campaign.start_date)
        second == formatDate(addDays(campaign.start_date, stepDays(frequency)))
    IN { NotGiven({}), Given({ second }), Given({ first, second }) }

NoArg == [ campaign |-> NoCampaign, contentCount |-> 0,
           preferences |-> [ frequency |-> "", preferred_times |-> NotGiven(<< >>),
                             excluded_dates |-> NotGiven({}) ] ]

\* const endDate = new Date(campaign.end_date)
endDate == sarg.campaign.end_date

\* preferences.excluded_dates?.includes(format(currentDate, 'yyyy-MM-dd'))
isExcluded(preferences, date) ==
    /\ preferences.excluded_dates.given
    /\ formatDate(date) \in preferences.excluded_dates.items

\* preferences.preferred_times?.[timeIndex] || defaultTime, with timeIndex
\* = length % (preferences.preferred_times?.length || 1), length being
\* schedule.length.
timeFor(preferences, length) ==
    LET times == preferences.preferred_times
        size == IF times.given /\ Len(times.items) # 0 THEN Len(times.items) ELSE 1
        timeIndex == length % size
    IN IF times.given /\ timeIndex + 1 \in DOMAIN times.items
          /\ times.items[timeIndex + 1] # ""
       THEN times.items[timeIndex + 1]
       ELSE defaultTime

\* autoScheduleContent(campaignId, contentCount, preferences) up to its
\* loop: the campaign row is read; reading start_date of no row throws.
autoScheduleContent(campaign, contentCount, preferences) ==
    /\ spc = "idle"
    /\ sarg' = [ campaign |-> campaign, contentCount |-> contentCount,
                 preferences |-> preferences ]
    /\ IF ~campaign.found
       THEN /\ spc' = "threw"
            /\ UNCHANGED << schedule, currentDate >>
       ELSE /\ spc' = "loop"
            /\ schedule' = << >>
            /\ currentDate' = campaign.start_date
    /\ UNCHANGED << rateVars, serveVars, crossVars, hashVars,
                    cache, cpc, creq, cdata, cgen, cret, calls, chist, hits, served >>

\* schedule.length < contentCount && currentDate <= endDate
loopTest == Len(schedule) < sarg.contentCount /\ currentDate <= endDate

\* One turn of the while loop: push an entry unless the date is excluded,
\* then advance currentDate.
ScheduleTurn ==
    /\ spc = "loop"
    /\ loopTest
    /\ schedule' =
         IF isExcluded(sarg.preferences, currentDate) THEN schedule
         ELSE Append(schedule,
                     [ scheduled_date |-> << formatDate(currentDate),
                                             timeFor(sarg.preferences, Len(schedule)) >>,
                       status |-> "scheduled" ])
    /\ currentDate' = addDays(currentDate, stepDays(sarg.preferences.frequency))
    /\ UNCHANGED << spc, sarg >>
    /\ UNCHANGED << rateVars, serveVars, crossVars, hashVars,
                    cache, cpc, creq, cdata, cgen, cret, calls, chist, hits, served >>

\* The loop is left: return schedule.
ScheduleReturn ==
    /\ spc = "loop"
    /\ ~loopTest
    /\ spc' = "returned"
    /\ UNCHANGED << sarg, schedule, currentDate >>
    /\ UNCHANGED << rateVars, serveVars, crossVars, hashVars,
                    cache, cpc, creq, cdata, cgen, cret, calls, chist, hits, served >>

\* The state after the modules are loaded: requestCounts and queue are empty
\* Maps, no request is at the edge function, no call of generateContent is
\* under way and the ai_responses table is empty.
Init ==
    /\ now = 0
    /\ requestCounts = EmptyMap
    /\ admitted = [ ip \in IPs |-> 0 ]
    /\ lastCall = NoCall
    /\ watch = NoWatch
    /\ queue = EmptyMap
    /\ hpc = [ r \in Reqs |-> "idle" ]
    /\ hreq = [ r \in Reqs |-> NoReq ]
    /\ hkey = [ r \in Reqs |-> "" ]
    /\ hwait = [ r \in Reqs |-> {} ]
    /\ hwoke = [ r \in Reqs |-> NoOutcome ]
    /\ hsusp = << >>
    /\ resp = [ r \in Reqs |-> NoResp ]
    /\ hlog = [ r \in Reqs |-> NoHLog ]
    /\ cache = << >>
    /\ cpc = [ p \in Callers |-> "idle" ]
    /\ creq = [ p \in Callers |-> NoTriple ]
    /\ cdata = [ p \in Callers |-> NoData ]
    /\ cgen = [ p \in Callers |-> NoAnswer ]
    /\ cret = [ p \in Callers |-> NoRet ]
    /\ calls = 0
    /\ chist = [ p \in Callers |-> NoHist ]
    /\ hits = << >>
    /\ served = [ h \in Hashes |-> NoneServed ]
    /\ xpc = "idle"
    /\ xct = ""
    /\ xi = 0
    /\ xcontent = ""
    /\ results = << >>
    /\ xlog = NoLog
    /\ fpin = << NoTriple, NoTriple >>
    /\ fpout = << "", "" >>
    /\ spc = "idle"
    /\ sarg = NoArg
    /\ schedule = << >>
    /\ currentDate = 0

\* ------------------------------------------------------------------------
\* SpecRate: direct calls of checkRateLimit
\* ------------------------------------------------------------------------

NextRate == Tick(Clock) \/ RateStep

SpecRate == Init /\ [][NextRate]_vars

\* ------------------------------------------------------------------------
\* SpecSlide: one client's calls of checkRateLimit under a moving clock, and
\* an interval of RATE_LIMIT_WINDOW ms, beginning at any instant, in which the
\* admitted calls are counted
\* ------------------------------------------------------------------------

SlideTick == Tick(Clock)

SlideCall == RateCall("10.0.0.1")

SlideObserve == Observe("10.0.0.1")

NextSlide == SlideTick \/ SlideCall \/ SlideObserve

SpecSlide == Init /\ [][NextSlide]_vars

\* ------------------------------------------------------------------------
\* SpecHash: generatePromptHash applied to two triples
\* ------------------------------------------------------------------------

\* Prompts, some of which hold the separator and the names of content types
\* and providers.
HashPrompts == { "", "-", "a", "a-blog", "a-blog-mistral", "blog-mistral" }

HashTriples ==
    [ prompt : HashPrompts, contentType : ContentTypes, provider : AIProviders ]

\* generatePromptHash is called for t and for u.
HashPair(t, u) ==
    /\ fpin = << NoTriple, NoTriple >>
    /\ fpin' = << t, u >>
    /\ fpout' = << HashOf(t), HashOf(u) >>
    /\ UNCHANGED << rateVars, serveVars, crossVars, schedVars,
                    cache, cpc, creq, cdata, cgen, cret, calls, chist, hits, served >>

NextHash == \E t, u \in HashTriples : HashPair(t, u)

SpecHash == Init /\ [][NextHash]_vars

\* ------------------------------------------------------------------------
\* SpecServe: NumReqs requests arrive at the edge function, in the order of
\* their numbers, within a few milliseconds
\* ------------------------------------------------------------------------

ServeRequests ==
    { [ method |-> "OPTIONS", xff |-> "10.0.0.1", json |-> FALSE, provider |-> "" ],
      [ method |-> "POST", xff |-> "10.0.0.1", json |-> FALSE, provider |-> "" ],
      [ method |-> "POST", xff |-> "10.0.0.1", json |-> TRUE, provider |-> "anthropic" ],
      [ method |-> "POST", xff |-> "10.0.0.1", json |-> TRUE, provider |-> "gpt" ] }

\* A response is on its way out: it is delivered before the model takes any
\* other step (its delivery touches nothing the other handlers read).
ResponsePending == \E r \in Reqs : hpc[r] = "done"

Arrive(r, req) ==
    /\ ~ResponsePending
    /\ \A q \in Reqs : q < r => hpc[q] # "idle"
    /\ Handle(r, req)
    /\ UNCHANGED clientVars

\* Time passes between the events at the edge function.
Elapse == ~ResponsePending /\ Tick(0..MaxMs)

BodyRead(r) == ~ResponsePending /\ Parsed(r) /\ UNCHANGED clientVars

Wake(r) == ~ResponsePending /\ Resume(r) /\ UNCHANGED clientVars

Settle(r) ==
    /\ ~ResponsePending
    /\ \E out \in Outcomes(r, { "text" }) : Complete(r, out)
    /\ UNCHANGED clientVars

\* The response of r has left; nothing of the request remains.
Deliver(r) ==
    /\ hpc[r] = "done"
    /\ hpc' = [ hpc EXCEPT ![r] = "closed" ]
    /\ resp' = [ resp EXCEPT ![r] = NoResp ]
    /\ hlog' = [ hlog EXCEPT ![r] = NoHLog ]
    /\ UNCHANGED << rateVars, clientVars, queue, hreq, hkey, hwait, hwoke, hsusp >>

NextServe ==
    \/ Elapse
    \/ \E r \in 1..NumReqs : \E req \in ServeRequests : Arrive(r, req)
    \/ \E r \in Reqs : BodyRead(r)
    \/ \E r \in Reqs : Wake(r)
    \/ \E r \in Reqs : Settle(r)
    \/ \E r \in Reqs : Deliver(r)

SpecServe == Init /\ [][NextServe]_vars

\* FairServe: requests with a well-formed body arrive within one millisecond,
\* from the shared address or from an address of their own, and every body
\* read, provider call, resumption and response that is due does happen
\* (requests need not arrive).
LiveRequests(r) ==
    [ method : { "POST" }, xff : { "10.0.0.1", "10.0.1." \o ToString(r) },
      json : { TRUE }, provider : { "anthropic" } ]

LiveArrive(r) == \E req \in LiveRequests(r) : Arrive(r, req)

NextLive ==
    \/ \E r \in 1..NumReqs : LiveArrive(r)
    \/ \E r \in 1..NumReqs : BodyRead(r)
    \/ \E r \in 1..NumReqs : Wake(r)
    \/ \E r \in 1..NumReqs : Settle(r)
    \/ \E r \in 1..NumReqs : Deliver(r)

FairServe ==
    /\ Init /\ [][NextLive]_vars
    /\ \A r \in 1..NumReqs : WF_vars(BodyRead(r)) /\ WF_vars(Wake(r))
    /\ \A r \in 1..NumReqs : WF_vars(Settle(r)) /\ WF_vars(Deliver(r))

\* ------------------------------------------------------------------------
\* SpecQueue: a stream of StreamLen generation requests from one address,
\* to providers that answer every call
\* ------------------------------------------------------------------------

\* Something is due at once: a response on its way out, or a body that has
\* arrived with its request.
Busy == \E r \in Reqs : hpc[r] \in { "parsing", "done" }

StreamArrive(r) ==
    /\ ~Busy
    /\ \A q \in Reqs : q < r => hpc[q] # "idle"
    /\ Handle(r, [ method |-> "POST", xff |-> "10.0.0.1", json |-> TRUE,
                   provider |-> "anthropic" ])
    /\ UNCHANGED clientVars

\* The next millisecond begins. A millisecond in which no request of the
\* stream got its key gives the queue no key it could not have had without
\* it, so the clock moves on only from one in which a request still in the
\* handler's hands got its key.
StreamElapse ==
    /\ ~Busy
    /\ ~MicrotaskPending
    /\ \E r \in Reqs : hkey[r] = requestKey("10.0.0.1", now)
    /\ Tick({ now + 1 } \cap (0..StreamMs))

StreamBodyRead(r) == Parsed(r) /\ UNCHANGED clientVars

StreamWake(r) == ~Busy /\ Resume(r) /\ UNCHANGED clientVars

\* The provider answers the operation of r.
StreamSettle(r) ==
    /\ ~Busy
    /\ Complete(r, Fulfilled(r, "text"))
    /\ UNCHANGED clientVars

NextQueue ==
    \/ StreamElapse
    \/ \E r \in Reqs : StreamArrive(r)
    \/ \E r \in Reqs : StreamBodyRead(r)
    \/ \E r \in Reqs : StreamWake(r)
    \/ \E r \in Reqs : StreamSettle(r)
    \/ \E r \in Reqs : Deliver(r)

SpecQueue == Init /\ [][NextQueue]_vars

\* ------------------------------------------------------------------------
\* Spec: NumCallers callers of generateContent in front of the edge
\* function
\* ------------------------------------------------------------------------

\* With no more callers than MAX_CONCURRENT_REQUESTS the queue never fills, and
\* the steps of the edge function that touch nothing a caller reads (reading
\* the body, sending the response) are taken as soon as they are enabled, as
\* is the caller's taking of a result.
Urgent ==
    \/ ResultPending
    \/ \E r \in Reqs : hpc[r] \in { "parsing", "done" }

\* The callers sit behind one proxy address.
Call(p) ==
    /\ ~Urgent
    /\ \E t \in Triples : Generate(p, t, "10.0.0.1")
    /\ UNCHANGED crossVars

\* The caller takes the result of its call.
Take(p) == Return(p) /\ UNCHANGED crossVars

Read(p) == ~Urgent /\ \E ok \in BOOLEAN : Lookup(p, ok)

Bump(p) == ~Urgent /\ \E ok \in BOOLEAN : Hit(p, ok)

Send(p) == ~Urgent /\ Invoke(p)

GwBodyRead(r) == Parsed(r) /\ UNCHANGED clientVars

\* The backend of caller p's operation answers or fails.
Backend(p) ==
    /\ ~Urgent
    /\ \E out \in Outcomes(p, Contents \cup { "" }) : Complete(p, out)
    /\ chist' = [ chist EXCEPT ![p].invoked = @ + 1 ]
    /\ UNCHANGED << cache, cpc, creq, cdata, cgen, cret, calls, hits, served, crossVars, hashVars, schedVars >>

Persist(p) == ~Urgent /\ \E ok \in BOOLEAN : Finish(p, ok)

Next ==
    \/ \E p \in Callers : Call(p)
    \/ \E p \in Callers : Read(p)
    \/ \E p \in Callers : Bump(p)
    \/ \E p \in Callers : Send(p)
    \/ \E p \in Callers : GwBodyRead(p)
    \/ \E p \in Callers : Backend(p)
    \/ \E p \in Callers : Answer(p)
    \/ \E p \in Callers : Persist(p)
    \/ \E p \in Callers : Take(p)

Spec == Init /\ [][Next]_vars

\* ------------------------------------------------------------------------
\* SpecGate: the callers of generateContent, other requests from their
\* address at the edge function, and the clock
\* ------------------------------------------------------------------------

\* The slot of the edge function's other traffic.
Other == NumReqs

\* Another request from the callers' address reaches the edge function: a
\* POST whose body is not JSON.
Traffic ==
    /\ ~Urgent
    /\ hpc[Other] = "idle"
    /\ Handle(Other, [ method |-> "POST", xff |-> "10.0.0.1", json |-> FALSE,
                       provider |-> "" ])
    /\ UNCHANGED clientVars

\* The response to that request has left.
TrafficDone ==
    /\ hpc[Other] = "done"
    /\ hpc' = [ hpc EXCEPT ![Other] = "idle" ]
    /\ resp' = [ resp EXCEPT ![Other] = NoResp ]
    /\ hlog' = [ hlog EXCEPT ![Other] = NoHLog ]
    /\ UNCHANGED << rateVars, clientVars, queue, hreq, hkey, hwait, hwoke, hsusp >>

\* Time passes, to just past the start of a later window.
Wait == ~Urgent /\ Tick({ k * RATE_LIMIT_WINDOW + 1 : k \in 1..MaxWindows })

\* One caller is at work.
Caller == CHOOSE p \in Callers : \A q \in Callers : p <= q

NextGate ==
    \/ Wait
    \/ Traffic
    \/ TrafficDone
    \/ Call(Caller)
    \/ Read(Caller)
    \/ Bump(Caller)
    \/ Send(Caller)
    \/ \E r \in { Caller, Other } : GwBodyRead(r)
    \/ Backend(Caller)
    \/ Answer(Caller)
    \/ Persist(Caller)
    \/ Take(Caller)

SpecGate == Init /\ [][NextGate]_vars

\* ------------------------------------------------------------------------
\* Requests with and without x-forwarded-for at the rate limiter's gate
\* ------------------------------------------------------------------------

\* A POST with header value xff (or without the header) reaches the edge
\* function; its body is not JSON.
Knock(xff) ==
    /\ ~Urgent
    /\ hpc[Other] = "idle"
    /\ Handle(Other, [ method |-> "POST", xff |-> xff, json |-> FALSE,
                       provider |-> "" ])
    /\ UNCHANGED clientVars

NextIdent ==
    \/ Wait
    \/ \E xff \in Headers : Knock(xff)
    \/ GwBodyRead(Other)
    \/ TrafficDone

SpecIdent == Init /\ [][NextIdent]_vars

\* ------------------------------------------------------------------------
\* SpecPreflight: pre-flight requests among the POSTs at the rate limiter's
\* gate
\* ------------------------------------------------------------------------

\* An OPTIONS request with header value xff (or without the header) reaches
\* the edge function.
Preflight(xff) ==
    /\ ~Urgent
    /\ hpc[Other] = "idle"
    /\ Handle(Other, [ method |-> "OPTIONS", xff |-> xff, json |-> FALSE,
                       provider |-> "" ])
    /\ UNCHANGED clientVars

NextPreflight ==
    \/ Wait
    \/ \E xff \in Headers : Knock(xff)
    \/ \E xff \in Headers : Preflight(xff)
    \/ GwBodyRead(Other)
    \/ TrafficDone

SpecPreflight == Init /\ [][NextPreflight]_vars

\* ------------------------------------------------------------------------
\* SpecSchedule: one call of autoScheduleContent; FairSchedule: the same,
\* the synchronous loop running on once it is entered
\* ------------------------------------------------------------------------

ScheduleCall ==
    \E campaign \in Campaigns, contentCount \in 0..MaxCount, frequency \in Frequencies :
        \E times \in PreferredTimes, excluded \in ExcludedDates(campaign, frequency) :
            autoScheduleContent(campaign, contentCount,
                                [ frequency |-> frequency, preferred_times |-> times,
                                  excluded_dates |-> excluded ])

NextSchedule == ScheduleCall \/ ScheduleTurn \/ ScheduleReturn

SpecSchedule == Init /\ [][NextSchedule]_vars

FairSchedule == SpecSchedule /\ WF_vars(ScheduleTurn \/ ScheduleReturn)

\* ------------------------------------------------------------------------
\* SpecCross: one crossCheckContent call, its generateContent calls going
\* through the client library and the edge function
\* ------------------------------------------------------------------------

XStart == \E ct \in ContentTypes : CrossCheck(ct)

XTurn == ~Urgent /\ CrossTurn(Caller)

XGenerated == CrossGenerated(Caller)

XAnalyzed == \E d \in { "analysis", "" } : CrossAnalyzed(d)

\* One crossCheckContent on the empty table: its generateContent calls are
\* for three different fingerprints, so no lookup finds a row and the hit
\* path has no step here.
NextCross ==
    \/ XStart
    \/ XTurn
    \/ XGenerated
    \/ XAnalyzed
    \/ Read(Caller)
    \/ Send(Caller)
    \/ GwBodyRead(Caller)
    \/ Backend(Caller)
    \/ Answer(Caller)
    \/ Persist(Caller)

SpecCross == Init /\ [][NextCross]_vars

\* ------------------------------------------------------------------------
\* Claims
\* ------------------------------------------------------------------------

\* The window of `ip` is absent or has elapsed.
WindowElapsed(ip) ==
    ip \notin DOMAIN requestCounts
    \/ now - requestCounts[ip].timestamp > RATE_LIMIT_WINDOW

\* C4: for each client, at most MAX_REQUESTS_PER_WINDOW of the calls made from
\* the call that set its windowStart up to RATE_LIMIT_WINDOW later return
\* true: the 11th call of a window, and every later one, returns false.
C4_AdmissionBound ==
    \A ip \in IPs : admitted[ip] <= MAX_REQUESTS_PER_WINDOW

\* A call inside a window that already admitted 10 calls was rejected.
C4_Witness ==
    /\ lastCall.seq = 1
    /\ ~lastCall.ok
    /\ admitted[lastCall.ip] = MAX_REQUESTS_PER_WINDOW
    /\ now - requestCounts[lastCall.ip].timestamp = RATE_LIMIT_WINDOW

\* C5: a client's first call, and its first call after its window elapsed,
\* returns true and leaves the window at count = 1, windowStart = now,
\* whatever the previous window admitted or rejected.
C5_WindowReset ==
    [][ \A ip \in IPs :
          ( /\ lastCall'.seq # lastCall.seq
            /\ lastCall'.ip = ip
            /\ WindowElapsed(ip) )
          => ( /\ lastCall'.ok
               /\ requestCounts'[ip] = [ count |-> 1, timestamp |-> now ] )
      ]_vars

\* A call that found an exhausted window elapsed was admitted into a new one.
C5_Witness ==
    /\ lastCall.ok
    /\ lastCall.prev = MAX_REQUESTS_PER_WINDOW
    /\ requestCounts[lastCall.ip] = [ count |-> 1, timestamp |-> now ]
    /\ now > RATE_LIMIT_WINDOW

\* C1: whatever the interleaving of the endpoint's enqueueRequest calls, two
\* of which may carry the same key, the operations started and not yet
\* completed never number more than MAX_CONCURRENT_REQUESTS.
C1_QueueBound ==
    Cardinality(InFlight) <= MAX_CONCURRENT_REQUESTS

\* C8: the promise enqueueRequest returns settles with the outcome of the
\* caller's own operation: a response that carries an operation's outcome
\* carries that of the request's own operation, never another caller's
\* failure.
C8_EnqueueIsolation ==
    \A r \in Reqs :
        (hpc[r] = "done" /\ resp[r].src # 0) => resp[r].src = r

\* C9: the in-flight set holds exactly one entry per operation started and
\* not completed: each such operation is the promise stored under its own
\* key, the queue holds nothing else, and it is empty when nothing executes.
C9_SlotBookkeeping ==
    /\ \A r \in InFlight : hkey[r] \in DOMAIN queue /\ queue[hkey[r]] = r
    /\ MapValues(queue) = InFlight
    /\ Cardinality(DOMAIN queue) = Cardinality(InFlight)

\* C2: under any interleaving of generateContent calls the usage_count of a
\* cached row is exact: once k hits on the row have written their update it
\* equals 1 + k, also when hits on the fingerprint overlap between their read
\* of usage_count and their write.
C2_UsageExact ==
    \A i \in DOMAIN cache : cache[i].usage_count = 1 + hits[i]

\* C3: once a response is stored for a triple, every call for the triple that
\* starts afterwards, and whose storage requests all succeed, is a cache hit:
\* it never takes the miss path, whatever rows racing misses have inserted.
C3_StoredIsHit ==
    \A p \in Callers :
        (chist[p].stored /\ ~chist[p].fault)
        => cpc[p] \notin { "miss", "awaiting", "answered" }

\* C6 as stated: a call has passed the rate limiter's gate before the cache is
\* consulted, so that a call that holds the lookup's result has been through
\* the gate.
C6_GateBeforeCache ==
    \A p \in Callers : cpc[p] \in { "hit", "miss" } => chist[p].gate

\* C6 as amended: the cache is consulted first and only a miss goes on to the
\* rate limiter's gate. A call reaches the gate only with a lookup that found
\* nothing, and a call on the hit path, or one that returned the cached
\* response, has not been to the gate: it consumed no unit of the window and
\* is served whatever the state of the window.
C6_CacheBeforeGate ==
    \A p \in Callers :
        /\ chist[p].gate =>
              ( /\ ~cdata[p].found
                /\ cpc[p] \in { "awaiting", "answered", "returned", "threw" } )
        /\ cdata[p].found =>
              ( /\ ~chist[p].gate
                /\ chist[p].invoked = 0
                /\ cpc[p] \in { "hit", "returned" } )
        /\ (hpc[p] # "idle" \/ resp[p] # NoResp) => cpc[p] = "awaiting"

\* A cache hit was served to a client whose window is exhausted and has not
\* elapsed, and its count stayed at the limit.
C6_Witness ==
    \E p \in Callers :
        /\ cpc[p] = "returned"
        /\ cdata[p].found
        /\ cret[p] = [ kind |-> "content", val |-> cdata[p].response ]
        /\ ~chist[p].gate
        /\ ~WindowElapsed(clientIpOf(creq[p].xff))
        /\ requestCounts[clientIpOf(creq[p].xff)].count = MAX_REQUESTS_PER_WINDOW

\* C7: when exactly two calls for a triple have returned content, starting
\* from a cache with no row for it and with no other call for the triple under
\* way during either, then the two invoked the provider once, one row holds
\* the fingerprint, the second call returned the content of the first, and
\* usage_count is 2.
C7_Idempotence ==
    \A h \in Hashes :
        (served[h].n = 2 /\ served[h].apart)
        => ( /\ served[h].invoked = 1
             /\ Cardinality(RowsOf(cache, h)) = 1
             /\ served[h].same
             /\ \A i \in RowsOf(cache, h) :
                    /\ cache[i].usage_count = 2
                    /\ cache[i].response = served[h].first )

\* C10: a call that ends Failed (the provider call failed, the endpoint
\* answered 429 or 500, or the content was empty) has written nothing to the
\* cache table: it inserted no row and changed no usage_count.
C10_FailedCachesNothing ==
    \A p \in Callers :
        cpc[p] = "threw"
        => ( /\ ~chist[p].wrote
             /\ missPlan(cgen[p]).throws
             /\ cret[p].kind = "error" )

\* A call failed on a 429 of the endpoint while the cache held a row, and
\* wrote nothing.
C10_Witness ==
    \E p \in Callers :
        /\ cpc[p] = "threw"
        /\ cgen[p].status = 429
        /\ ~chist[p].wrote
        /\ cache # << >>

\* The primary provider of each content type, as the claim lists them.
PrimaryOf ==
    [ blog |-> "anthropic", social |-> "gemini", email |-> "cohere",
      description |-> "mistral" ]

\* C11: crossCheckContent never calls generateContent with the primary provider
\* of its content type, its result list never holds an entry for that
\* provider, and when it returns it has attempted exactly the three other
\* providers.
C11_PrimaryExcluded ==
    xpc # "idle" =>
        /\ \A k \in DOMAIN xlog.tried : xlog.tried[k] # PrimaryOf[xct]
        /\ \A k \in DOMAIN results : results[k].provider # PrimaryOf[xct]
        /\ \A p \in Callers : Active(p) => creq[p].provider # PrimaryOf[xct]
        /\ xpc = "returned" =>
              /\ Len(xlog.tried) = 3
              /\ { xlog.tried[k] : k \in DOMAIN xlog.tried }
                    = AIProviders \ { PrimaryOf[xct] }

\* A cross-check of social content returned three entries, none of gemini.
C11_Witness ==
    /\ xpc = "returned"
    /\ xct = "social"
    /\ Len(results) = 3
    /\ "anthropic" \in { results[k].provider : k \in DOMAIN results }

\* C12: whatever generations and analyses fail, crossCheckContent returns (no
\* exception ends it), has attempted each of the three non-primary providers,
\* and its list holds, in order, one entry for each of those that did not fail
\* and none for those that failed; with exactly one failing the list has
\* length 2.
C12_PartialFailure ==
    /\ xpc \in { "idle", "loop", "generating", "analyzing", "returned" }
    /\ xpc = "returned" =>
          LET worked(v) == v \notin xlog.failed IN
          /\ Len(xlog.tried) = 3
          /\ [ k \in DOMAIN results |-> results[k].provider ]
                = SelectSeq(xlog.tried, worked)
          /\ Cardinality(xlog.failed) = 1 => Len(results) = 2

\* The first provider attempted failed, the two later ones were still
\* attempted and the list returned holds their two entries.
C12_Witness ==
    /\ xpc = "returned"
    /\ xlog.failed = { xlog.tried[1] }
    /\ Len(results) = 2

\* C13: when every body read, resumption and provider call that is due
\* completes, each request the endpoint has taken up is eventually answered,
\* and each caller suspended in enqueueRequest is eventually released.
C13_Terminates ==
    <>[](\A r \in Reqs : hpc[r] \in { "idle", "closed" })

\* A request that enqueueRequest had suspended has been answered 200 with
\* the content of its own operation.
C13_Witness ==
    \E r \in Reqs :
        /\ hpc[r] = "done"
        /\ hlog[r].waited
        /\ resp[r] = [ status |-> 200, body |-> "text", src |-> r ]

\* C14: the response to a request that is not a pre-flight is 429 with the
\* rate limiter's error exactly when the rate limiter rejected it, 200 with
\* the content when its provider operation succeeded, and 500 with an error
\* message in every other case; and a request answered 429 has read no body,
\* taken no in-flight slot and started no operation.
C14_OutcomeMapping ==
    \A r \in Reqs :
        (hpc[r] = "done" /\ hlog[r].admit # "") =>
            /\ resp[r].status \in { 200, 429, 500 }
            /\ resp[r].status = 429 <=> hlog[r].admit = "no"
            /\ resp[r].status = 429 =>
                  /\ resp[r].body = "Rate limit exceeded. Please try again later."
                  /\ ~hlog[r].parsed /\ ~hlog[r].waited /\ ~hlog[r].slot
                  /\ hlog[r].ran = 0 /\ ~hlog[r].backend
            /\ resp[r].status = 200 <=> hlog[r].settled = "fulfilled"
            /\ resp[r].status = 200 => resp[r].body = hlog[r].val
            /\ resp[r].status = 500 => resp[r].body # ""

\* The rate limiter rejected a generateContent caller's request and it was
\* answered 429, untouched by the rest of the handler.
C14_Witness ==
    \E p \in Callers :
        /\ hpc[p] = "done"
        /\ hlog[p] = [ NoHLog EXCEPT !.admit = "no" ]
        /\ resp[p].status = 429

\* C15 as stated: in every interval of RATE_LIMIT_WINDOW ms, wherever it
\* begins, at most MAX_REQUESTS_PER_WINDOW calls of a client are admitted.
C15_SlidingWindow ==
    watch.n <= MAX_REQUESTS_PER_WINDOW

\* C15 as amended: the window is fixed. An interval of RATE_LIMIT_WINDOW ms
\* that begins at a windowStart admits at most MAX_REQUESTS_PER_WINDOW calls
\* of the client; one that begins elsewhere may straddle two windows and
\* admits at most 2 * MAX_REQUESTS_PER_WINDOW - 1.
C15_FixedWindow ==
    /\ watch.atStart => watch.n <= MAX_REQUESTS_PER_WINDOW
    /\ watch.n <= 2 * MAX_REQUESTS_PER_WINDOW - 1

\* An interval that began inside a window saw 19 calls admitted, the last
\* of them in the next window.
C15_Witness ==
    /\ watch.n = 2 * MAX_REQUESTS_PER_WINDOW - 1
    /\ ~watch.atStart
    /\ requestCounts[watch.ip].timestamp > watch.from
    /\ now - watch.from <= RATE_LIMIT_WINDOW

\* C16: for prompts that may hold the '-' separator and contentType and
\* provider of their enumerations, the string generatePromptHash digests is
\* the same for two triples exactly when the triples are the same.
C16_FingerprintInjective ==
    fpout[1] = fpout[2] <=> fpin[1] = fpin[2]

\* Two triples whose prompts differ by a suffix that reads like the other's
\* content type and provider have different fingerprints.
C16_Witness ==
    /\ fpin[1] = [ prompt |-> "a-blog-mistral", contentType |-> "blog",
                   provider |-> "mistral" ]
    /\ fpin[2] = [ prompt |-> "a", contentType |-> "blog", provider |-> "mistral" ]
    /\ fpout[1] = "a-blog-mistral-blog-mistral"
    /\ fpout[2] = "a-blog-mistral"

\* The identity a request is limited under: its x-forwarded-for value, or
\* "unknown" when the header is missing or empty.
IdentityOf(xff) == IF xff \in { NoHeader, "" } THEN "unknown" ELSE xff

\* The identity of the request the handler admits in this step.
AdmitsFor(a) ==
    /\ hpc[Other] = "idle"
    /\ hpc'[Other] = "parsing"
    /\ IdentityOf(hreq'[Other].xff) = a

\* Bucket b is the same before and after the step, and so is the verdict
\* the next call for b would get.
BucketKept(b) ==
    /\ (b \in DOMAIN requestCounts') = (b \in DOMAIN requestCounts)
    /\ b \in DOMAIN requestCounts => requestCounts'[b] = requestCounts[b]
    /\ checkRateLimit(requestCounts', b, now').ok
         = checkRateLimit(requestCounts, b, now).ok

\* Bucket a has counted one more admitted request: one more in its running
\* window, or the first of a new one.
BucketCounted(a) ==
    /\ a \in DOMAIN requestCounts'
    /\ requestCounts'[a].count
         = IF a \in DOMAIN requestCounts
              /\ requestCounts'[a].timestamp = requestCounts[a].timestamp
           THEN requestCounts[a].count + 1
           ELSE 1
    /\ requestCounts'[a].count <= MAX_REQUESTS_PER_WINDOW

\* C17: the limiter keeps one bucket per client identity. A request admitted
\* for identity a is counted in a's bucket, which never holds more than 10
\* admitted requests per window, and leaves every other identity's count,
\* window start and next verdict as they were; requests whose header is
\* missing or empty all have the identity "unknown" and so share one bucket;
\* a step that admits nothing changes no bucket.
C17_BucketPerIdentity ==
    [][ /\ \A a \in { IdentityOf(x) : x \in Headers } :
             AdmitsFor(a) =>
               /\ BucketCounted(a)
               /\ \A b \in { IdentityOf(x) : x \in Headers } \ {a} :
                      BucketKept(b)
        /\ hpc'[Other] # "parsing" \/ hpc[Other] # "idle"
             => requestCounts' = requestCounts ]_vars

\* "unknown" has used up its window with requests that carried no header or
\* an empty one, while 10.0.0.1 still has room.
C17_Witness ==
    /\ "unknown" \in DOMAIN requestCounts
    /\ "10.0.0.1" \in DOMAIN requestCounts
    /\ requestCounts["unknown"].count = MAX_REQUESTS_PER_WINDOW
    /\ requestCounts["10.0.0.1"].count = 1
    /\ requestCounts["unknown"].timestamp = requestCounts["10.0.0.1"].timestamp
    /\ hlog[Other].admit = "no"
    /\ resp[Other].status = 429

\* The endpoint's side of C18: a request starts its operation at most once,
\* and when the backend it reached failed the response is the 500 whose body
\* is the backend's error message.
EndpointVerbatim ==
    \A r \in Reqs :
        /\ hlog[r].ran <= 1
        /\ (hpc[r] = "done" /\ hlog[r].backend /\ hlog[r].settled = "rejected") =>
              resp[r] = [ status |-> 500, body |-> hlog[r].val, src |-> r ]

\* The call of p has thrown after the edge function answered 500 with a
\* backend's error message.
ThrewOnProviderError(p) ==
    /\ cpc[p] = "threw"
    /\ cgen[p] = [ status |-> 500, body |-> "provider error" ]

\* C18 as stated: provider errors are never retried and surfaced verbatim,
\* in the endpoint's 500 body and in the rejection of generateContent alike.
C18_Verbatim ==
    /\ EndpointVerbatim
    /\ \A p \in Callers :
          /\ chist[p].invoked <= 1
          /\ ThrewOnProviderError(p) => cret[p].val = cgen[p].body

\* C18 as amended: for one generation request the backend is invoked at
\* most once, and when it fails the endpoint's 500 body is the provider's
\* error message; the client-side generateContent call then rejects with its
\* own fixed message, not with the provider's.
C18_VerbatimAtEndpoint ==
    /\ EndpointVerbatim
    /\ \A p \in Callers :
          /\ chist[p].invoked <= 1
          /\ ThrewOnProviderError(p) =>
                cret[p] = [ kind |-> "error",
                            val |-> "Failed to generate content. Please try again." ]

\* A caller's request reached its backend once, the backend failed, and the
\* endpoint has answered 500 with the backend's message.
C18_Witness ==
    \E p \in Callers :
        /\ cpc[p] = "awaiting"
        /\ chist[p].invoked = 1
        /\ hpc[p] = "done"
        /\ hlog[p].backend /\ hlog[p].ran = 1 /\ hlog[p].settled = "rejected"
        /\ resp[p] = [ status |-> 500, body |-> "provider error", src |-> p ]

\* The request of r was admitted by the rate limiter and its body named a
\* provider the switch does not know.
UnknownProvider(r) ==
    /\ hlog[r].admit = "yes"
    /\ hlog[r].provider \notin AIProviders \cup { Unread }

\* C19: a request admitted by the rate limiter whose provider is none of
\* mistral, gemini, anthropic, cohere is answered 500 with the
\* invalid-provider error, after it took an in-flight slot and started its
\* operation once; it reached no backend, cached nothing and has released
\* its slot.
C19_InvalidProvider ==
    \A r \in Reqs :
        (hpc[r] = "done" /\ UnknownProvider(r)) =>
            /\ resp[r] = [ status |-> 500, body |-> "Invalid AI provider selected",
                           src |-> r ]
            /\ hlog[r].slot /\ hlog[r].ran = 1
            /\ ~hlog[r].backend
            /\ r \notin MapValues(queue)
            /\ cache = << >>

\* C20: the cache does not keep one row per fingerprint. Overlapping calls
\* for one triple on a cache without a row for it can each observe a miss,
\* invoke the provider and insert a row (C20_Witness is reachable); what
\* bounds the rows of a fingerprint is the number of provider invocations
\* made by the calls that returned content for it, not 1.
C20_RowsBoundedByInvocations ==
    \A h \in Hashes :
        /\ Cardinality(RowsOf(cache, h)) <= served[h].invoked
        /\ served[h].invoked <= served[h].n

\* Two calls were made, for the same triple; the second to finish began on
\* a cache without a row for it while the other was under way, met no
\* storage error, invoked the provider and inserted its row: the cache now
\* holds two rows for the fingerprint, after two invocations.
C20_Witness ==
    \E p \in Callers :
        LET h == HashOf(creq[p]) IN
        /\ calls = 2
        /\ cpc[p] = "returned"
        /\ chist[p].overlap /\ ~chist[p].stored /\ ~chist[p].fault
        /\ chist[p].invoked = 1 /\ chist[p].wrote
        /\ Cardinality(RowsOf(cache, h)) = 2
        /\ served[h].n = 2 /\ served[h].invoked = 2

\* Caller r leaves enqueueRequest's while loop in this step: its operation
\* is started.
Admitted(r) == hpc[r] # "running" /\ hpc'[r] = "running"

AttemptOrder(ct) ==
    SelectSeq(<< "mistral", "gemini", "anthropic", "cohere" >>,
              LAMBDA v : v # PrimaryOf[ct])

\* The generations and analyses of the cross-check that are in flight.
CrossInFlight ==
    Cardinality({ p \in Callers : Active(p) })
      + (IF xpc = "analyzing" THEN 1 ELSE 0)

\* The providers whose attempt is over: an entry was pushed, or the
\* generation or the analysis failed.
CrossOver == { results[k].provider : k \in DOMAIN results } \cup xlog.failed

\* C22: within one crossCheckContent call at most one generation or analysis
\* is in flight; the providers are attempted in the order mistral, gemini,
\* anthropic, cohere without the primary; an attempt starts only when the
\* attempts before it are over; and the result list follows that order with
\* no provider twice.
C22_SequentialOrdered ==
    xpc # "idle" =>
        LET order == AttemptOrder(xct)
            n == Len(xlog.tried)
            entered(v) == v \in { results[k].provider : k \in DOMAIN results }
        IN
        /\ CrossInFlight <= 1
        /\ n <= Len(order)
        /\ \A k \in 1..n : xlog.tried[k] = order[k]
        /\ \A k \in 1..n :
              (k < n \/ xpc \in { "loop", "returned" }) => xlog.tried[k] \in CrossOver
        /\ \A p \in Callers : Active(p) => (n > 0 /\ creq[p].provider = xlog.tried[n])
        /\ [ k \in DOMAIN results |-> results[k].provider ]
              = SelectSeq(order, entered)
        /\ \A j, k \in DOMAIN results :
              results[j].provider = results[k].provider => j = k

\* The second attempt of a cross-check of blog content is in flight at the
\* edge function: gemini, after mistral's entry was pushed.
C22_Witness ==
    /\ xpc = "generating"
    /\ xct = "blog"
    /\ xlog.tried = << "mistral", "gemini" >>
    /\ Len(results) = 1 /\ results[1].provider = "mistral"
    /\ \E p \in Callers : cpc[p] = "awaiting" /\ creq[p].provider = "gemini"

\* The triple of the cross-check's current iteration.
CrossTriple ==
    [ prompt |-> "Write about Bali", contentType |-> xct, provider |-> providers[xi] ]

\* C23: the generations of a cross-check take generateContent's path. One
\* whose triple was cached when it began returns without a backend
\* invocation, its usage count incremented; and when the analysis of a
\* generated content is requested, the cache holds a row for the triple with
\* that content, whatever becomes of the analysis.
C23_SameGatewayPath ==
    /\ \A p \in Callers :
          (xpc = "generating" /\ cpc[p] = "returned" /\ chist[p].stored
           /\ chist[p].invoked = 0) => chist[p].wrote
    /\ xpc = "analyzing" =>
          \E i \in RowsOf(cache, HashOf(CrossTriple)) : cache[i].response = xcontent

\* C24: a generateContent call that returns content through the miss path
\* has by then inserted its row: the fingerprint, prompt, content type and
\* provider of the call, the returned content as response and
\* usage_count = 1.
C24_PersistBeforeDone ==
    \A p \in Callers :
        (cpc[p] = "returned" /\ chist[p].gate) =>
            /\ chist[p].wrote
            /\ \E i \in DOMAIN cache :
                  cache[i] = [ prompt_hash |-> HashOf(creq[p]),
                               prompt |-> creq[p].prompt,
                               content_type |-> creq[p].contentType,
                               provider |-> creq[p].provider,
                               response |-> cret[p].val,
                               usage_count |-> 1 ]

\* The handler of r gets the rate limiter's refusal in this step.
Refused(r) == hlog[r].admit = "" /\ hlog'[r].admit = "no"

\* C25: every stored window has a count from 1 to 10; a window, once
\* stored, stays stored and its count never decreases while its start
\* stands, whatever becomes of the requests it admitted; a new start is the
\* time of a call made more than 60 000 ms after the old one, and counts
\* that call; and a refused call is answered 429 by the handler, having
\* changed no client's count or window start.
C25_WindowInvariant ==
    /\ [](\A ip \in DOMAIN requestCounts :
             /\ requestCounts[ip].count >= 1
             /\ requestCounts[ip].count <= MAX_REQUESTS_PER_WINDOW)
    /\ [][ /\ \A ip \in DOMAIN requestCounts :
                /\ ip \in DOMAIN requestCounts'
                /\ requestCounts'[ip].timestamp = requestCounts[ip].timestamp
                     => requestCounts'[ip].count >= requestCounts[ip].count
                /\ requestCounts'[ip].timestamp # requestCounts[ip].timestamp
                     => /\ requestCounts'[ip] = [ count |-> 1, timestamp |-> now ]
                        /\ now - requestCounts[ip].timestamp > RATE_LIMIT_WINDOW
           /\ \A r \in Reqs :
                Refused(r) => /\ requestCounts' = requestCounts
                              /\ hpc'[r] = "done"
                              /\ resp'[r].status = 429 ]_vars

\* A request that took the tenth unit of its client's window reached its
\* provider, the provider failed and the request was answered 500: the
\* window still counts 10.
C25_Witness ==
    \E p \in Callers :
        /\ hpc[p] = "done"
        /\ hlog[p].admit = "yes" /\ hlog[p].backend
        /\ resp[p].status = 500
        /\ requestCounts["10.0.0.1"].count = MAX_REQUESTS_PER_WINDOW

\* C26: a pre-flight request is answered 200 in the step that receives it,
\* whatever the client's window holds, and leaves the rate limiter's map
\* (no unit taken, no window created), the queue of operations in flight and
\* the record of provider invocations as they were.
C26_PreflightNoEffect ==
    [][ \A xff \in Headers :
          Preflight(xff) =>
              /\ hpc'[Other] = "done"
              /\ resp'[Other] = [ status |-> 200, body |-> "ok", src |-> 0 ]
              /\ requestCounts' = requestCounts
              /\ queue' = queue
              /\ hlog' = hlog ]_vars

\* A pre-flight request was answered 200 while its client's window stood at
\* 10 requests.
C26_Witness ==
    /\ hpc[Other] = "done"
    /\ hlog[Other].admit = ""
    /\ resp[Other] = [ status |-> 200, body |-> "ok", src |-> 0 ]
    /\ "10.0.0.1" \in DOMAIN requestCounts
    /\ requestCounts["10.0.0.1"].count = MAX_REQUESTS_PER_WINDOW

\* C27: a call of checkRateLimit made at most 60 000 ms after the start of
\* its client's window, exactly 60 000 ms included, leaves that start in
\* place and is rejected, the map untouched, when the count is already 10;
\* a call made more than 60 000 ms after it is admitted and starts a new
\* window, counting 1, at the time of the call.
C27_BoundaryInside ==
    [][ \A ip \in DOMAIN requestCounts :
          (lastCall' # lastCall /\ lastCall'.ip = ip) =>
              LET age == now - requestCounts[ip].timestamp IN
              /\ age <= RATE_LIMIT_WINDOW =>
                   /\ requestCounts'[ip].timestamp = requestCounts[ip].timestamp
                   /\ requestCounts[ip].count = MAX_REQUESTS_PER_WINDOW =>
                        /\ ~lastCall'.ok
                        /\ requestCounts' = requestCounts
              /\ age > RATE_LIMIT_WINDOW =>
                   /\ lastCall'.ok
                   /\ requestCounts'[ip] = [ count |-> 1, timestamp |-> now ] ]_vars

\* A call made exactly 60 000 ms after the start of a window that counts 10
\* has been rejected.
C27_Witness ==
    /\ lastCall.ip \in DOMAIN requestCounts
    /\ ~lastCall.ok
    /\ now - requestCounts[lastCall.ip].timestamp = RATE_LIMIT_WINDOW
    /\ requestCounts[lastCall.ip].count = MAX_REQUESTS_PER_WINDOW

\* The day of the i-th entry of the schedule, and its time.
EntryDay(i) == schedule[i].scheduled_date[1]

EntryTime(i) == schedule[i].scheduled_date[2]

\* The step between the days of a schedule: 1, 7 or 30 days.
StepAsked ==
    IF sarg.preferences.frequency = "daily" THEN 1
    ELSE IF sarg.preferences.frequency = "weekly" THEN 7
    ELSE 30

\* The days the call may schedule on: those a whole number of steps after
\* the campaign's start that are reached no later than its end, the
\* excluded ones left out.
OpenDays ==
    LET step == StepAsked
        excluded == sarg.preferences.excluded_dates IN
    { formatDate(addDays(sarg.campaign.start_date, k * step)) :
        k \in { j \in 0..MaxDay :
                  addDays(sarg.campaign.start_date, j * step) <= sarg.campaign.end_date } }
    \ (IF excluded.given THEN excluded.items ELSE {})

\* The schedule a call has returned, against its arguments.
ScheduleAsAsked ==
    LET step == StepAsked
        times == sarg.preferences.preferred_times
        n == Len(schedule) IN
    /\ n <= sarg.contentCount
    /\ \A i \in 1..n :
         /\ EntryDay(i) >= formatDate(sarg.campaign.start_date)
         /\ EntryDay(i) <= formatDate(sarg.campaign.end_date)
         /\ (EntryDay(i) - formatDate(sarg.campaign.start_date)) % step = 0
         /\ EntryDay(i) \in OpenDays
         /\ EntryTime(i) = IF times.given /\ Len(times.items) > 0
                           THEN times.items[((i - 1) % Len(times.items)) + 1]
                           ELSE "10:00"
    /\ \A i, j \in 1..n : i < j => EntryDay(i) < EntryDay(j)
    /\ \A d \in OpenDays :
         (\A i \in 1..n : EntryDay(i) # d) =>
             /\ n = sarg.contentCount
             /\ \A i \in 1..n : EntryDay(i) < d

\* C28: for each of the frequencies daily, weekly and monthly, a call of
\* autoScheduleContent that has entered its loop returns; what it returns
\* has at most contentCount entries, on strictly increasing days between
\* the days of start_date and end_date, each a whole number of steps of 1,
\* 7 or 30 days after the start and none of them excluded; an excluded day
\* takes no entry's place (the entries are on the earliest open days, and
\* fewer than contentCount only when the open days run out); and the i-th
\* entry has the time preferred_times[(i - 1) mod length], or 10:00 when no
\* times are given.
C28_ScheduleTerminatesAsAsked ==
    /\ [](spc = "returned" => ScheduleAsAsked)
    /\ (spc = "loop" ~> spc = "returned")

\* A weekly call for three entries, the second week excluded and two times
\* preferred, has returned entries on days 0, 14 and 21 at the first, the
\* second and again the first time.
C28_Witness ==
    /\ spc = "returned"
    /\ sarg.preferences.frequency = "weekly"
    /\ sarg.contentCount = 3
    /\ sarg.preferences.excluded_dates = Given({ 7 })
    /\ Len(schedule) = 3
    /\ << EntryDay(1), EntryDay(2), EntryDay(3) >> = << 0, 14, 21 >>
    /\ << EntryTime(1), EntryTime(2), EntryTime(3) >> = << "09:00", "18:00", "09:00" >>

============================================================================
